---- MODULE Spec2Model ----
(***************************************************************************)
(* PayFast subscription signing and ITN (webhook) handling of              *)
(* Preach-Point-Login.                                                     *)
(*                                                                         *)
(* Strings are sequences of tokens.  A token is either one character that  *)
(* the encoders treat specially (" ", "&", "=", "+", "!", "_", ":", "/",   *)
(* the quotes, "<", ">") or a run of unreserved characters ("COMPLETE",    *)
(* "99.00", "u1"), which every encoder of the repository leaves as it is.  *)
(* md5 is modelled as an injective                                         *)
(* function: the digest of s is <<"md5">> \o s.                            *)
(*                                                                         *)
(* src/server.js holds two versions of the PayFast routes: lines 1-870     *)
(* (version 1) and lines 871-1620 (version 2).  `version` says which one   *)
(* is deployed.                                                            *)
(***************************************************************************)
EXTENDS Integers, Sequences, FiniteSets, TLC

VARIABLES
    version,      \* 1 | 2: the deployed version of the routes
    passphrase,   \* process.env.PAYFAST_PASSPHRASE (<<>>: not set)
    subs,         \* Firestore collection subscriptions: id -> document | NoDoc
    users,        \* Firestore documents users/{uid}: uid -> document | NoDoc
    claims,       \* Firebase Auth custom claims: uid -> set of claim names
    now,          \* the server clock behind FieldValue.serverTimestamp()
    pc,           \* per ITN request: where its handler is
    posted,       \* per ITN request: req.body
    validateResp, \* per ITN request: the handler's validateResp
    snap,         \* per ITN request: user.customClaims read by auth.getUser
    outcome,      \* per ITN request: the branch the handler ended in
    response,     \* per ITN request: what res.status(..).send(..) sent
    sfields,      \* signing round trip: the field map
    ssig,         \* signing round trip: the signature made by the Initiator
    sstage,       \* signing round trip: "input" | "signed" | "verified"
    stampered,    \* signing round trip: what was changed after signing
    sverified,    \* signing round trip: the webhook's comparison
    encoder,      \* canonical encoding: which buildPfParamString of the repository
    entries,      \* canonical encoding: Object.entries(fields), in insertion order
    canon,        \* canonical encoding: the string built (Undef: not yet)
    env,          \* process.env of the deployment: name -> value | Undef
    sub,          \* per subscribe request: where its handler is and what it holds
    wrote,        \* history, per ITN request: the stores its handler has written
    lastApplied,  \* history: the last notification applied in full, and the
                  \* authorization state it left (NoneApplied after any other write)
    sentBody,     \* per ITN request: the body its handler posted to the
                  \* validation endpoint (Undef: none)
    gate          \* the request to a premium endpoint: the ID token its client
                  \* holds, req.user, where the middleware is, how it ended

itnVars  == <<subs, users, claims, now, pc, posted, validateResp, snap, outcome,
              response, wrote, lastApplied, sentBody>>
signVars == <<sfields, ssig, sstage, stampered, sverified>>
subVars  == <<env, sub>>
encVars  == <<encoder, entries, canon>>
vars     == <<version, passphrase, subs, users, claims, now, pc, posted,
              validateResp, snap, outcome, response, wrote, lastApplied,
              sfields, ssig, sstage, stampered, sverified, env, sub,
              encoder, entries, canon, sentBody, gate>>

(***************************************************************************)
(* Strings                                                                 *)
(***************************************************************************)
\* undefined and null: tokens no string holds
Undef == << "<undefined>" >>
Null == << "<null>" >>

RECURSIVE TrimLeft(_)
TrimLeft(s) ==
    IF s = <<>> THEN s
    ELSE IF Head(s) = " " THEN TrimLeft(Tail(s)) ELSE s

RECURSIVE TrimRight(_)
TrimRight(s) ==
    IF s = <<>> THEN s
    ELSE IF s[Len(s)] = " " THEN TrimRight(SubSeq(s, 1, Len(s) - 1)) ELSE s

\* String.prototype.trim
Trim(s) == TrimRight(TrimLeft(s))

\* Array.prototype.join('&') of a sequence of strings
RECURSIVE JoinAmp(_)
JoinAmp(parts) ==
    IF parts = <<>> THEN <<>>
    ELSE IF Len(parts) = 1 THEN parts[1]
    ELSE parts[1] \o <<"&">> \o JoinAmp(Tail(parts))

\* encodeURIComponent, one token: A-Z a-z 0-9 - _ . ! ~ * ' ( ) are kept
encodeURIComponentTok(c) ==
    CASE c = " " -> "%20"
      [] c = "&" -> "%26"
      [] c = "=" -> "%3D"
      [] c = "+" -> "%2B"
      [] c = ":" -> "%3A"
      [] c = "/" -> "%2F"
      [] OTHER   -> c

\* buildPfParamString.mjs: encodeURIComponent(str).replace(/%20/g, '+')
encodeFormComponent(str) ==
    [i \in 1..Len(str) |->
        LET e == encodeURIComponentTok(str[i]) IN IF e = "%20" THEN "+" ELSE e]

\* server.js (version 2): encodeURIComponent, then ! ' ( ) * percent-encoded
encodeRFC3986(str) ==
    [i \in 1..Len(str) |->
        LET e == encodeURIComponentTok(str[i]) IN IF e = "!" THEN "%21" ELSE e]

\* crypto.createHash('md5').update(s).digest('hex'), taken as injective
md5Hex(s) == <<"md5">> \o s

(***************************************************************************)
(* The signer of buildPfParamString.mjs (used by version 1's Initiator)    *)
(***************************************************************************)
PF_FIELD_ORDER ==
    << "merchant_id", "merchant_key", "return_url", "cancel_url", "notify_url",
       "name_first", "name_last", "email_address", "cell_number",
       "m_payment_id", "amount", "item_name", "item_description",
       "custom_int1", "custom_int2", "custom_int3", "custom_int4", "custom_int5",
       "custom_str1", "custom_str2", "custom_str3", "custom_str4", "custom_str5",
       "email_confirmation", "confirmation_address", "payment_method",
       "subscription_type", "billing_date", "recurring_amount", "frequency", "cycles" >>

\* The keys of `order` whose value in `fields` is not undefined, not null
\* and not blank
PresentKeys(order, fields) ==
    SelectSeq(order, LAMBDA k : /\ k \in DOMAIN fields
                                /\ fields[k] \notin {Undef, Null}
                                /\ Trim(fields[k]) # <<>>)

buildPfParamString(fields, pass) ==
    LET keys  == PresentKeys(PF_FIELD_ORDER, fields)
        parts == [i \in 1..Len(keys) |->
                     <<keys[i], "=">> \o encodeFormComponent(Trim(fields[keys[i]]))]
        pp    == IF pass # <<>> /\ Trim(pass) # <<>>
                 THEN << <<"passphrase", "=">> \o encodeFormComponent(Trim(pass)) >>
                 ELSE <<>>
    IN  JoinAmp(parts \o pp)

generateSignature(fields, pass) == md5Hex(buildPfParamString(fields, pass))

(***************************************************************************)
(* The signer of server.js, version 2 (Initiator and ITN handler)          *)
(***************************************************************************)
orderedKeys ==
    << "merchant_id", "merchant_key", "return_url", "cancel_url", "notify_url",
       "m_payment_id", "amount", "item_name",
       "subscription_type", "billing_date", "recurring_amount", "frequency", "cycles",
       "custom_str1" >>

buildPfParamString2(fields, pass) ==
    LET keys  == SelectSeq(orderedKeys, LAMBDA k : /\ k \in DOMAIN fields
                                                   /\ fields[k] \notin {Undef, Null, <<>>})
        pairs == [i \in 1..Len(keys) |->
                     <<keys[i], "=">> \o encodeRFC3986(fields[keys[i]])]
    IN  JoinAmp(pairs) \o
        (IF pass # <<>> THEN <<"&", "passphrase", "=">> \o encodeRFC3986(pass) ELSE <<>>)

(***************************************************************************)
(* buildPfParamStringSorted / generateSignatureSorted: imported by         *)
(* server.js:14-15 from buildPfParamString.mjs, which does not define      *)
(* them.  Modelled from the Canonical Encoder and Signer of the            *)
(* specification: the fields of the fixed order first, then every other    *)
(* field but `signature` in lexicographic order; blank values left out;    *)
(* spaces as "+", the other reserved characters percent-encoded as the     *)
(* repository's form encoders do; the secret last, when it is not blank.   *)
(***************************************************************************)
\* The field names outside PF_FIELD_ORDER that a notification carries, sorted
LexOtherKeys ==
    << "amount_fee", "amount_gross", "amount_net", "payment_status",
       "pf_payment_id", "subscription_status", "token" >>

encodeCanonical(str) ==
    [i \in 1..Len(str) |->
        LET e == encodeURIComponentTok(str[i]) IN IF e = "%20" THEN "+" ELSE e]

buildPfParamStringSorted(fields, pass) ==
    LET keys  == PresentKeys(PF_FIELD_ORDER \o LexOtherKeys, fields)
        parts == [i \in 1..Len(keys) |->
                     <<keys[i], "=">> \o encodeCanonical(Trim(fields[keys[i]]))]
        pp    == IF Trim(pass) # <<>>
                 THEN << <<"passphrase", "=">> \o encodeCanonical(Trim(pass)) >>
                 ELSE <<>>
    IN  JoinAmp(parts \o pp)

generateSignatureSorted(fields, pass) == md5Hex(buildPfParamStringSorted(fields, pass))

(***************************************************************************)
(* JavaScript values of the ITN handler                                    *)
(***************************************************************************)
\* obj[k]
Get(obj, k) == IF k \in DOMAIN obj THEN obj[k] ELSE Undef

\* !v for a string or undefined
Falsy(v) == v = Undef \/ v = <<>>

\* a || b
OrElse(a, b) == IF Falsy(a) THEN b ELSE a

LowerTok(c) ==
    CASE c = "ACTIVE"    -> "active"
      [] c = "COMPLETE"  -> "complete"
      [] c = "CANCELLED" -> "cancelled"
      [] c = "FAILED"    -> "failed"
      [] OTHER           -> c

UpperTok(c) ==
    CASE c = "active"    -> "ACTIVE"
      [] c = "complete"  -> "COMPLETE"
      [] c = "cancelled" -> "CANCELLED"
      [] c = "failed"    -> "FAILED"
      [] c = "unknown"   -> "UNKNOWN"
      [] OTHER           -> c

\* String.prototype.toLowerCase / toUpperCase
toLowerCase(s) == [i \in 1..Len(s) |-> LowerTok(s[i])]
toUpperCase(s) == [i \in 1..Len(s) |-> UpperTok(s[i])]

\* Number(v) in whole rand; NaN for what is no number
NaN == -1
Number(v) ==
    CASE v = <<"99.00">>  -> 99
      [] v = <<"100.00">> -> 100
      [] v = <<"9.00">>   -> 9
      [] v = <<"0">>      -> 0
      [] v = <<>>         -> 0
      [] OTHER            -> NaN

\* str.split('_'): the pieces between the "_" tokens
RECURSIVE SplitUnderscore(_, _)
SplitUnderscore(s, cur) ==
    IF s = <<>> THEN <<cur>>
    ELSE IF Head(s) = "_" THEN <<cur>> \o SplitUnderscore(Tail(s), <<>>)
    ELSE SplitUnderscore(Tail(s), Append(cur, Head(s)))

\* obj without key k (delete obj[k])
Without(obj, k) == [x \in DOMAIN obj \ {k} |-> obj[x]]

\* Firestore set(data, {merge: true}): the fields of data over those of the document
Merge(data, doc) == data @@ doc

(***************************************************************************)
(* The other signers of the repository: the two buildPfParamString.mjs of  *)
(* src/unnamed/part_000 and buildParamString of serverBU.js.  A field map  *)
(* is given as Object.entries(fields): <<key, value>> in insertion order.  *)
(***************************************************************************)
\* The object whose entries are es
FromEntries(es) ==
    [k \in {es[i][1] : i \in 1..Len(es)} |->
        es[CHOOSE i \in 1..Len(es) : es[i][1] = k][2]]

\* part_000, fixed-order version: PF_FIELD_ORDER
PF_FIELD_ORDER_Fixed ==
    << "merchant_id", "merchant_key", "return_url", "cancel_url", "notify_url",
       "m_payment_id", "amount", "item_name", "payment_method",
       "subscription_type", "billing_date", "recurring_amount", "frequency", "cycles",
       "email_confirmation", "confirmation_address",
       "custom_int1", "custom_int2", "custom_int3", "custom_int4", "custom_int5",
       "custom_str1", "custom_str2", "custom_str3", "custom_str4", "custom_str5" >>

\* part_000 and serverBU.js: String(v).trim().replace(/ /g, '+')
enc(v) == LET t == Trim(v) IN [i \in 1..Len(t) |-> IF t[i] = " " THEN "+" ELSE t[i]]

\* part_000, fixed-order version: buildPfParamString
buildPfParamStringFixed(fields, pass) ==
    LET keys  == PresentKeys(PF_FIELD_ORDER_Fixed, fields)
        parts == [i \in 1..Len(keys) |-> <<keys[i], "=">> \o enc(Trim(fields[keys[i]]))]
        pp    == IF pass # <<>> /\ Trim(pass) # <<>>
                 THEN << <<"passphrase", "=">> \o enc(Trim(pass)) >>
                 ELSE <<>>
    IN  JoinAmp(parts \o pp)

\* part_000, insertion-order version: encodeURIComponent, %20 as '+', the
\* hex digits of the escapes in upper case (as encodeURIComponent makes them)
pfEncode(v) ==
    [i \in 1..Len(v) |->
        LET e == encodeURIComponentTok(v[i]) IN IF e = "%20" THEN "+" ELSE e]

\* part_000, insertion-order version: buildPfParamString
buildPfParamStringEntries(es, pass) ==
    LET kept  == SelectSeq(es, LAMBDA kv : /\ kv[1] # "signature"
                                           /\ kv[2] \notin {Undef, Null}
                                           /\ Trim(kv[2]) # <<>>)
        parts == [i \in 1..Len(kept) |-> <<kept[i][1], "=">> \o pfEncode(Trim(kept[i][2]))]
        pp    == IF pass # <<>> /\ Trim(pass) # <<>>
                 THEN << <<"passphrase", "=">> \o pfEncode(Trim(pass)) >>
                 ELSE <<>>
    IN  JoinAmp(parts \o pp)

\* serverBU.js: PF_FIELD_ORDER
PF_FIELD_ORDER_BU ==
    << "merchant_id", "merchant_key", "return_url", "cancel_url", "notify_url",
       "m_payment_id", "amount", "item_name", "payment_method",
       "subscription_type", "billing_date", "recurring_amount", "frequency", "cycles" >>

\* serverBU.js: buildParamString
buildParamString(fields, pass) ==
    LET keys  == PresentKeys(PF_FIELD_ORDER_BU, fields)
        parts == [i \in 1..Len(keys) |-> <<keys[i], "=">> \o enc(Trim(fields[keys[i]]))]
        pp    == IF pass # <<>> /\ Trim(pass) # <<>>
                 THEN << <<"passphrase", "=">> \o enc(Trim(pass)) >>
                 ELSE <<>>
    IN  JoinAmp(parts \o pp)

\* The signers of the repository, by the file that holds them
Encoders ==
    { "buildPfParamString.mjs", "part_000 fixed", "part_000 entries",
      "server.js", "serverBU.js" }

\* What the signer e builds for the entries es and the secret pass
Canonical(e, es, pass) ==
    CASE e = "buildPfParamString.mjs" -> buildPfParamString(FromEntries(es), pass)
      [] e = "part_000 fixed"         -> buildPfParamStringFixed(FromEntries(es), pass)
      [] e = "part_000 entries"       -> buildPfParamStringEntries(es, pass)
      [] e = "server.js"              -> buildPfParamString2(FromEntries(es), pass)
      [] e = "serverBU.js"            -> buildParamString(FromEntries(es), pass)

\* The fixed order list of the signer e (none for the insertion-order version)
OrderList(e) ==
    CASE e = "buildPfParamString.mjs" -> PF_FIELD_ORDER
      [] e = "part_000 fixed"         -> PF_FIELD_ORDER_Fixed
      [] e = "part_000 entries"       -> <<>>
      [] e = "server.js"              -> orderedKeys
      [] e = "serverBU.js"            -> PF_FIELD_ORDER_BU

\* The values a field of an encoded map may hold (undefined: no such field)
EncValues ==
    [ merchant_id    |-> { <<"X">>, <<" ", "X">>, <<" ">>, Null },
      amount         |-> { Undef, <<"99.00">> },
      item_name      |-> { Undef, <<>>, <<"Monthly", " ", "Plan">> },
      payment_status |-> { Undef, <<"COMPLETE">> } ]

EncKeys == DOMAIN EncValues

\* The keys of a map in an insertion order: every order of every set of keys
EncKeySeqs ==
    { q \in UNION { [1..n -> EncKeys] : n \in 1..Cardinality(EncKeys) } :
        \A i, j \in DOMAIN q : i # j => q[i] # q[j] }

\* The field maps encoded, as entries
EncEntries ==
    { [i \in DOMAIN q |-> <<q[i], f[q[i]]>>] :
        q \in EncKeySeqs,
        f \in { g \in [EncKeys -> UNION {EncValues[k] : k \in EncKeys}] :
                  \A k \in EncKeys : g[k] \in EncValues[k] \ {Undef} } }

EncIdle ==
    /\ encoder = "buildPfParamString.mjs"
    /\ entries = <<>>
    /\ canon = Undef

(***************************************************************************)
(* Bounds and inputs                                                       *)
(***************************************************************************)
\* Notifications delivered in one behaviour (the clock stops there)
MaxTime == 3

\* ITN requests in flight at once
Requests == {"r1", "r2"}

\* PayFast delivering its notifications one after the other
Serial == {"r1"}

\* Firebase Auth accounts
AuthUsers == { <<"u1">> }

\* process.env.PAYFAST_PASSPHRASE of the deployment that takes notifications
Passphrases == { <<"s3cret">> }

NoResp == [status |-> 0, body |-> ""]

\* k: v, or nothing when v is undefined
Opt(k, v) == IF v = Undef THEN <<>> ELSE (k :> v)

PaymentRefs   == { <<"p1">> }
ExplicitUids  == { Undef, <<"u1">> }
StatusPairs   ==
    { <<<<"COMPLETE">>, Undef>>, <<Undef, <<"ACTIVE">>>>, <<Undef, <<"CANCELLED">>>>,
      <<<<"FAILED">>, Undef>>, <<<<"COMPLETE">>, <<"CANCELLED">>>> }
GrossAmounts  == { <<"99.00">>, <<"9.00">> }
ForgedSig     == md5Hex(<<"forged">>)

\* A payment reference of version 1's Initiator, sub_{uid}_{timestamp}
SubRef == <<"sub", "_", "u1", "_", "t1">>

\* The fields of a notification, signature apart: every combination for the
\* plain reference, and one notification that names its user only in m_payment_id
ItnFields ==
    { Opt("m_payment_id", m) @@ Opt("custom_str1", u) @@ Opt("payment_status", st[1])
        @@ Opt("subscription_status", st[2]) @@ Opt("amount_gross", a) :
        m \in PaymentRefs, u \in ExplicitUids, st \in StatusPairs, a \in GrossAmounts }
    \cup { ("m_payment_id" :> SubRef) @@ ("subscription_status" :> <<"ACTIVE">>)
             @@ ("amount_gross" :> <<"99.00">>) }

(***************************************************************************)
(* ITN handler: pure parts                                                 *)
(***************************************************************************)
\* what the handler sends: res.status(200).send('OK')
OK200 == [status |-> 200, body |-> "OK"]

\* faulty variant: a catch block that reports the failure to PayFast
ItnCatchResponse500 == [status |-> 500, body |-> "error"]

\* the catch block of the handler
ItnCatchResponse == OK200

\* version 1: String(posted.signature || ''); version 2: payload.signature
receivedSig(v, body) ==
    IF v = 1 THEN OrElse(Get(body, "signature"), <<>>) ELSE Get(body, "signature")

\* version 1: generateSignatureSorted(posted, PASSPHRASE || '');
\* version 2: md5Hex(buildPfParamString(payload, PASSPHRASE)), signature deleted
expectedSig(v, body, pass) ==
    IF v = 1 THEN generateSignatureSorted(body, pass)
    ELSE md5Hex(buildPfParamString2(Without(body, "signature"), pass))

SigMismatch(v, body, pass) == expectedSig(v, body, pass) # receivedSig(v, body)

\* faulty variant: only an explicit INVALID is refused
NotValidOnlyInvalid(resp) == resp = <<"INVALID">>

\* validateResp !== 'VALID'
NotValid(resp) == resp # <<"VALID">>

\* version 2 works on the payload with `signature` deleted
Payload(v, body) == IF v = 1 THEN body ELSE Without(body, "signature")

\* version 1: custom_str1, else parts[1] of an m_payment_id "sub_{uid}_{ts}";
\* version 2: custom_str1
ResolveUid(v, body) ==
    LET explicit == Get(body, "custom_str1")
        mpid     == Get(body, "m_payment_id")
    IN  IF v = 2 THEN explicit
        ELSE IF Falsy(explicit) /\ mpid # Undef /\ Len(mpid) >= 2
                 /\ mpid[1] = "sub" /\ mpid[2] = "_"
             THEN LET parts == SplitUnderscore(mpid, <<>>)
                  IN  IF Len(parts) >= 2 THEN parts[2] ELSE Undef
             ELSE explicit

\* version 1: String(posted.m_payment_id || 'unknown'); version 2: payload.m_payment_id
DocId(v, body) ==
    IF v = 1 THEN OrElse(Get(body, "m_payment_id"), <<"unknown">>)
    ELSE Get(body, "m_payment_id")

\* (subscription_status || payment_status || 'unknown').toLowerCase()
ItnStatus(body) ==
    toLowerCase(OrElse(Get(body, "subscription_status"),
                       OrElse(Get(body, "payment_status"), <<"unknown">>)))

\* The document written to subscriptions/{id}
SubData(v, body, t) ==
    LET uid == ResolveUid(v, body)
    IN  ("uid" :> (IF v = 1 THEN OrElse(uid, Null) ELSE uid))
        @@ ("status" :> ItnStatus(body))
        @@ ("lastItn" :> Payload(v, body))
        @@ ("updatedAt" :> t)

\* Firestore refuses doc(undefined) and a field whose value is undefined
PersistRefused(v, body) ==
    v = 2 /\ (Falsy(Get(body, "m_payment_id")) \/ ResolveUid(v, body) = Undef)

\* Number(posted.amount_gross || posted.amount || 0)
ItnAmount(body) ==
    LET a == OrElse(Get(body, "amount_gross"), Get(body, "amount"))
    IN  IF Falsy(a) THEN 0 ELSE Number(a)

\* The price a month, in rand (version 1: amount >= 99)
MinPrice == 99

\* version 1: uid && (subStatus === 'ACTIVE' || status === 'COMPLETE') && amount >= 99
\* version 2: subscriptionStatus === 'ACTIVE' || paymentStatus === 'COMPLETE'
Activates(v, body) ==
    IF v = 1
    THEN /\ ~Falsy(ResolveUid(v, body))
         /\ \/ toUpperCase(OrElse(Get(body, "subscription_status"), <<>>)) = <<"ACTIVE">>
            \/ toUpperCase(OrElse(Get(body, "payment_status"), <<>>)) = <<"COMPLETE">>
         /\ ItnAmount(body) # NaN /\ ItnAmount(body) >= MinPrice
    ELSE \/ Get(body, "subscription_status") = <<"ACTIVE">>
         \/ Get(body, "payment_status") = <<"COMPLETE">>

\* version 2: subscriptionStatus === 'CANCELLED' || paymentStatus === 'CANCELLED'
Cancels(v, body) ==
    /\ v = 2
    /\ \/ Get(body, "subscription_status") = <<"CANCELLED">>
       \/ Get(body, "payment_status") = <<"CANCELLED">>

\* The document merged into users/{uid} by version 1
UserData(body, t) ==
    ("subscriber" :> TRUE)
    @@ ("pf" :> [ last_status  |-> OrElse(toUpperCase(OrElse(Get(body, "subscription_status"), <<>>)),
                                          toUpperCase(OrElse(Get(body, "payment_status"), <<>>))),
                  last_itn_at  |-> t,
                  pf_payment_id |-> OrElse(Get(body, "pf_payment_id"), Null),
                  token        |-> OrElse(Get(body, "token"), Null),
                  amount_gross |-> OrElse(Get(body, "amount_gross"), Null) ])

\* What the premium gate reads.  Version 1 (requireSubscriberDb):
\* users/{uid}.subscriber; version 2 (requireSubscriber): the custom claim
FlagOf(v, usrs, clms, uid) ==
    IF v = 1
    THEN uid \in DOMAIN usrs /\ "subscriber" \in DOMAIN usrs[uid] /\ usrs[uid]["subscriber"] = TRUE
    ELSE uid \in DOMAIN clms /\ "subscriber" \in clms[uid]

(***************************************************************************)
(* Initiator: POST /api/payfast/subscribe, pure parts                      *)
(***************************************************************************)
\* Subscribe requests in flight at once
SubRequests == {"s1"}

\* Who calls: req.user.uid (undefined: not signed in)
Callers == { Undef, <<"u1">>, <<"a", "_", "b">> }

\* The ids db.collection('subscriptions').doc() may hand out
AutoIds == { <<"a1">>, <<"a2">> }

\* The configuration the routes read
EnvNames ==
    { "PAYFAST_MERCHANT_ID", "PAYFAST_MERCHANT_KEY", "PAYFAST_RETURN_URL",
      "PAYFAST_CANCEL_URL", "PAYFAST_NOTIFY_URL", "SUBSCRIPTION_AMOUNT",
      "SUBSCRIPTION_ITEM", "SITE_URL", "PAYFAST_MODE" }

\* A deployment with every variable set
FullEnv ==
    [ PAYFAST_MERCHANT_ID  |-> <<"10041319">>,
      PAYFAST_MERCHANT_KEY |-> <<"26zrknv5">>,
      PAYFAST_RETURN_URL   |-> <<"https", ":", "/", "/", "site", "/", "success">>,
      PAYFAST_CANCEL_URL   |-> <<"https", ":", "/", "/", "site", "/", "cancel">>,
      PAYFAST_NOTIFY_URL   |-> <<"https", ":", "/", "/", "site", "/", "itn">>,
      SUBSCRIPTION_AMOUNT  |-> <<"99.00">>,
      SUBSCRIPTION_ITEM    |-> <<"Preach", " ", "Point", " ", "Monthly">>,
      SITE_URL             |-> <<"https", ":", "/", "/", "site">>,
      PAYFAST_MODE         |-> <<"live">> ]

\* The deployments looked at: every variable set, one of them missing, or a
\* site address with a query in it
Envs ==
    {FullEnv} \cup { [FullEnv EXCEPT ![k] = Undef] : k \in EnvNames }
    \cup { [FullEnv EXCEPT !.SITE_URL = <<"https", ":", "/", "/", "site", "/", "x", "&", "y">>] }

\* String(v) of a field of `fields`
Str(fields, k) == IF k \in DOMAIN fields THEN fields[k] ELSE <<"undefined">>

\* process.env.SITE_URL || `https://${req.headers.host}`
siteUrl(e) == OrElse(e.SITE_URL, <<"https", ":", "/", "/", "host">>)

\* new Date(Date.now() + 24*60*60*1000).toISOString().slice(0,10)
BillingDate(t) == <<"day", ToString(t + 1)>>

\* version 1: `sub_${uid}_${Date.now()}`
SubPaymentId(uid, t) == <<"sub", "_">> \o uid \o <<"_", ToString(t)>>

\* The keys of `fields` in insertion order, version 1
fieldKeys1 ==
    << "merchant_id", "merchant_key", "return_url", "cancel_url", "notify_url",
       "m_payment_id", "amount", "item_name", "custom_str1", "subscription_type",
       "billing_date", "recurring_amount", "frequency", "cycles" >>

\* The keys of `fields` in insertion order, version 2
fieldKeys2 ==
    << "merchant_id", "merchant_key", "return_url", "cancel_url", "notify_url",
       "m_payment_id", "amount", "item_name", "subscription_type",
       "billing_date", "recurring_amount", "frequency", "cycles", "custom_str1" >>

\* The price of version 1: const price = '99.00'
price == <<"99.00">>

\* const fields = {...}, version 1; a key whose value is undefined is left out
fields1(e, uid, t) ==
    Opt("merchant_id", e.PAYFAST_MERCHANT_ID)
    @@ Opt("merchant_key", e.PAYFAST_MERCHANT_KEY)
    @@ [ return_url        |-> siteUrl(e) \o <<"/", "subscribe", "/", "success">>,
         cancel_url        |-> siteUrl(e) \o <<"/", "subscribe", "/", "cancel">>,
         notify_url        |-> siteUrl(e) \o <<"/", "api", "/", "payfast", "/", "itn">>,
         m_payment_id      |-> SubPaymentId(uid, t),
         amount            |-> price,
         item_name         |-> <<"Preach", " ", "Point", " ", "Monthly">>,
         custom_str1       |-> uid,
         subscription_type |-> <<"1">>,
         billing_date      |-> BillingDate(t),
         recurring_amount  |-> price,
         frequency         |-> <<"3">>,
         cycles            |-> <<"0">> ]

\* const fields = {...}, version 2; a key whose value is undefined is left out
fields2(e, uid, mPaymentId) ==
    Opt("merchant_id", e.PAYFAST_MERCHANT_ID)
    @@ Opt("merchant_key", e.PAYFAST_MERCHANT_KEY)
    @@ Opt("return_url", e.PAYFAST_RETURN_URL)
    @@ Opt("cancel_url", e.PAYFAST_CANCEL_URL)
    @@ Opt("notify_url", e.PAYFAST_NOTIFY_URL)
    @@ Opt("amount", e.SUBSCRIPTION_AMOUNT)
    @@ Opt("item_name", e.SUBSCRIPTION_ITEM)
    @@ Opt("recurring_amount", e.SUBSCRIPTION_AMOUNT)
    @@ [ m_payment_id      |-> mPaymentId,
         subscription_type |-> <<"1">>,
         billing_date      |-> <<>>,
         frequency         |-> <<"3">>,
         cycles            |-> <<"0">>,
         custom_str1       |-> uid ]

\* isLive ? 'https://www.payfast.co.za/eng/process' : 'https://sandbox.payfast.co.za/eng/process'
target(e) == IF e.PAYFAST_MODE = <<"live">> THEN "www.payfast.co.za" ELSE "sandbox.payfast.co.za"

\* escapeHtmlAttr, one token
escapeHtmlTok(c) ==
    CASE c = "&"  -> "&amp;"
      [] c = "\"" -> "&quot;"
      [] c = "'"  -> "&#39;"
      [] c = "<"  -> "&lt;"
      [] c = ">"  -> "&gt;"
      [] OTHER    -> c

\* version 1: escapeHtmlAttr(String(v)); version 2: String(v) as it is
escapeHtmlAttr(v, str) ==
    IF v = 1 THEN [i \in 1..Len(str) |-> escapeHtmlTok(str[i])] ELSE str

\* Object.entries({...fields, signature}) as the hidden inputs of the form:
\* name -> the text put between the quotes of value="..."; the signature is
\* a hexadecimal digest, which escapeHtmlAttr leaves as it is
inputs(v, keys, fields, signature) ==
    [k \in {keys[i] : i \in 1..Len(keys)} |-> escapeHtmlAttr(v, Str(fields, k))]
        @@ ("signature" :> signature)

\* res.set('Content-Type', 'text/html').send(form)
Redirect(v, e, keys, fields, signature) ==
    [status |-> 200, target |-> target(e), inputs |-> inputs(v, keys, fields, signature)]

\* requireAuth: res.status(401).json({error: 'Sign in required'})
SignInRequired == [status |-> 401, error |-> "Sign in required"]

\* the catch block: res.status(500).json({error: 'Could not start subscription'})
CouldNotStart == [status |-> 500, error |-> "Could not start subscription"]

\* subRef.set({uid, status: 'pending', plan: 'monthly', createdAt})
PendingDoc(uid, t) ==
    [uid |-> uid, status |-> <<"pending">>, plan |-> <<"monthly">>, createdAt |-> t]

\* No ID token, no req.user: uid and subscriber read as undefined
NoToken == [uid |-> Undef, subscriber |-> FALSE]

\* The premium request before anybody sent it: no token held, no header,
\* no req.user
NoGate ==
    [pc |-> "idle", held |-> NoToken, bearer |-> NoToken, user |-> NoToken,
     result |-> "none"]

GateIdle == gate = NoGate

\* A subscribe request nobody has sent yet
NoSub ==
    [pc |-> "idle", user |-> Undef, mPaymentId |-> Undef, fields |-> <<>>,
     signature |-> Undef, response |-> NoResp]

SubIdle == sub = [s \in SubRequests |-> NoSub]

(***************************************************************************)
(* ITN handler: POST /api/payfast/itn, one action per await                *)
(***************************************************************************)
NoneApplied == [n |-> Undef, auth |-> Undef, runs |-> 0]

\* status and owner of the notification's record, and its user's flag
AuthState(v, body, sbs, usrs, clms) ==
    LET id  == DocId(v, body)
        uid == ResolveUid(v, body)
    IN  [ status |-> IF id \in DOMAIN sbs THEN sbs[id]["status"] ELSE Undef,
          uid    |-> IF id \in DOMAIN sbs THEN sbs[id]["uid"] ELSE Undef,
          flag   |-> FlagOf(v, usrs, clms, uid) ]

\* history: a write for another notification ends the run of lastApplied
AfterWrite(h) ==
    IF lastApplied.n # posted[h] THEN NoneApplied ELSE lastApplied

SignIdle ==
    /\ sfields = <<>>
    /\ ssig = <<>>
    /\ sstage = "off"
    /\ stampered = "none"
    /\ sverified = FALSE

Init ==
    /\ version \in {1, 2}
    /\ passphrase \in Passphrases
    /\ subs = <<>>
    /\ users = <<>>
    /\ claims = [u \in AuthUsers |-> {}]
    /\ now = 0
    /\ pc = [h \in Requests |-> "idle"]
    /\ posted = [h \in Requests |-> <<>>]
    /\ validateResp = [h \in Requests |-> Undef]
    /\ snap = [h \in Requests |-> {}]
    /\ outcome = [h \in Requests |-> "none"]
    /\ response = [h \in Requests |-> NoResp]
    /\ wrote = [h \in Requests |-> {}]
    /\ lastApplied = NoneApplied
    /\ sentBody = [h \in Requests |-> Undef]
    /\ SignIdle
    /\ env = FullEnv
    /\ SubIdle
    /\ GateIdle
    /\ EncIdle

\* The handler ends: the response is sent
Respond(h, out, resp) ==
    /\ pc' = [pc EXCEPT ![h] = "done"]
    /\ outcome' = [outcome EXCEPT ![h] = out]
    /\ response' = [response EXCEPT ![h] = resp]

\* PayFast posts a notification with fields of F; the signature it carries
\* is the one the deployed handler expects, a forged one, or none
ReceiveOf(h, F) ==
    /\ pc[h] \in {"idle", "done"}
    /\ now < MaxTime
    /\ \E f \in F :
         \E sig \in {expectedSig(version, f, passphrase), ForgedSig, Undef} :
            posted' = [posted EXCEPT ![h] = f @@ Opt("signature", sig)]
    /\ now' = now + 1
    /\ pc' = [pc EXCEPT ![h] = "sig"]
    /\ validateResp' = [validateResp EXCEPT ![h] = Undef]
    /\ snap' = [snap EXCEPT ![h] = {}]
    /\ outcome' = [outcome EXCEPT ![h] = "none"]
    /\ response' = [response EXCEPT ![h] = NoResp]
    /\ wrote' = [wrote EXCEPT ![h] = {}]
    /\ sentBody' = [sentBody EXCEPT ![h] = Undef]
    /\ UNCHANGED <<version, passphrase, subs, users, claims, lastApplied>>
    /\ UNCHANGED signVars
    /\ UNCHANGED subVars
    /\ UNCHANGED encVars
    /\ UNCHANGED gate

\* faulty variant: the mismatch is logged and the handler goes on
CheckSignatureNoReturn(h) ==
    /\ pc[h] = "sig"
    /\ pc' = [pc EXCEPT ![h] = "validate"]
    /\ UNCHANGED <<outcome, response>>
    /\ UNCHANGED <<version, passphrase, subs, users, claims, now, posted,
                   validateResp, snap, wrote, lastApplied>>
    /\ UNCHANGED signVars
    /\ UNCHANGED subVars
    /\ UNCHANGED encVars
    /\ UNCHANGED gate
    /\ UNCHANGED sentBody

\* 1) signature verification
CheckSignature(h) ==
    /\ pc[h] = "sig"
    /\ IF SigMismatch(version, posted[h], passphrase)
       THEN Respond(h, "invalid signature", OK200)
       ELSE /\ pc' = [pc EXCEPT ![h] = "validate"]
            /\ UNCHANGED <<outcome, response>>
    /\ UNCHANGED <<version, passphrase, subs, users, claims, now, posted,
                   validateResp, snap, wrote, lastApplied>>
    /\ UNCHANGED signVars
    /\ UNCHANGED subVars
    /\ UNCHANGED encVars
    /\ UNCHANGED gate
    /\ UNCHANGED sentBody

\* faulty variant: the string that was hashed is sent
qsForHash(v, body) ==
    IF v = 1 THEN buildPfParamStringSorted(body, passphrase)
    ELSE buildPfParamString2(Payload(2, body), passphrase)

\* The body of the validation call.  Version 1:
\* buildPfParamStringSorted(posted, ''); version 2:
\* buildPfParamString(payload, null), null being as falsy as ''
qsNoPass(v, body) ==
    IF v = 1 THEN buildPfParamStringSorted(body, <<>>)
    ELSE buildPfParamString2(Payload(2, body), <<>>)

\* What the validation endpoint answers, before .trim()
ValidatorReplies == { <<"VALID">>, <<"VALID", " ">>, <<"INVALID">>, <<>> }

\* 2) await validateWithPayFast(qsNoPass): an answer
Validate(h) ==
    /\ pc[h] = "validate"
    /\ sentBody' = [sentBody EXCEPT ![h] = qsNoPass(version, posted[h])]
    /\ \E raw \in ValidatorReplies :
         LET text == Trim(raw) IN
         /\ validateResp' = [validateResp EXCEPT ![h] = text]
         /\ IF NotValid(text)
            THEN Respond(h, "validate != VALID", OK200)
            ELSE /\ pc' = [pc EXCEPT ![h] = "persist"]
                 /\ UNCHANGED <<outcome, response>>
    /\ UNCHANGED <<version, passphrase, subs, users, claims, now, posted,
                   snap, wrote, lastApplied>>
    /\ UNCHANGED signVars
    /\ UNCHANGED subVars
    /\ UNCHANGED encVars
    /\ UNCHANGED gate

\* faulty variant: a failed validation call is taken as VALID
ValidateThrowsFailOpen(h) ==
    /\ pc[h] = "validate"
    /\ sentBody' = [sentBody EXCEPT ![h] = qsNoPass(version, posted[h])]
    /\ pc' = [pc EXCEPT ![h] = "persist"]
    /\ UNCHANGED <<outcome, response>>
    /\ UNCHANGED <<version, passphrase, subs, users, claims, now, posted,
                   validateResp, snap, wrote, lastApplied>>
    /\ UNCHANGED signVars
    /\ UNCHANGED subVars
    /\ UNCHANGED encVars
    /\ UNCHANGED gate

\* 2) await validateWithPayFast(qsNoPass): fetch throws, the catch block answers
ValidateThrows(h) ==
    /\ pc[h] = "validate"
    /\ sentBody' = [sentBody EXCEPT ![h] = qsNoPass(version, posted[h])]
    /\ Respond(h, "error: validate", ItnCatchResponse)
    /\ UNCHANGED <<version, passphrase, subs, users, claims, now, posted,
                   validateResp, snap, wrote, lastApplied>>
    /\ UNCHANGED signVars
    /\ UNCHANGED subVars
    /\ UNCHANGED encVars
    /\ UNCHANGED gate

\* The end of a handler whose writes are all done (history: one more
\* application in a row of the same notification, counted up to 2)
Applied(h, sbs, usrs, clms) ==
    /\ Respond(h, "applied", OK200)
    /\ lastApplied' = [n    |-> posted[h],
                       auth |-> AuthState(version, posted[h], sbs, usrs, clms),
                       runs |-> IF lastApplied.n = posted[h] THEN 2 ELSE 1]

\* where the handler goes after the subscription document is written
AfterPersist(v, body) ==
    IF Activates(v, body) THEN (IF v = 1 THEN "userdoc" ELSE "getUser")
    ELSE IF Cancels(v, body) THEN "getUserC"
    ELSE "respond"

\* 4) await db.collection('subscriptions').doc(id).set({...}, {merge: true})
Persist(h) ==
    /\ pc[h] = "persist"
    /\ ~PersistRefused(version, posted[h])
    /\ LET id   == DocId(version, posted[h])
           old  == IF id \in DOMAIN subs THEN subs[id] ELSE <<>>
           next == AfterPersist(version, posted[h])
           sbs  == (id :> Merge(SubData(version, posted[h], now), old)) @@ subs
       IN  /\ subs' = sbs
           /\ wrote' = [wrote EXCEPT ![h] = @ \cup {"subscriptions"}]
           /\ IF next = "respond"
              THEN Applied(h, sbs, users, claims)
              ELSE /\ pc' = [pc EXCEPT ![h] = next]
                   /\ lastApplied' = AfterWrite(h)
                   /\ UNCHANGED <<outcome, response>>
    /\ UNCHANGED <<version, passphrase, users, claims, now, posted, validateResp, snap>>
    /\ UNCHANGED signVars
    /\ UNCHANGED subVars
    /\ UNCHANGED encVars
    /\ UNCHANGED gate
    /\ UNCHANGED sentBody

\* 4) the write throws (Firestore is down, or refuses the document)
PersistThrows(h) ==
    /\ pc[h] = "persist"
    /\ Respond(h, "error: persist", ItnCatchResponse)
    /\ UNCHANGED <<version, passphrase, subs, users, claims, now, posted,
                   validateResp, snap, wrote, lastApplied>>
    /\ UNCHANGED signVars
    /\ UNCHANGED subVars
    /\ UNCHANGED encVars
    /\ UNCHANGED gate
    /\ UNCHANGED sentBody

\* 5) version 1: await db.doc(`users/${uid}`).set({subscriber: true, pf}, {merge: true})
UserDoc(h) ==
    /\ pc[h] = "userdoc"
    /\ LET uid == ResolveUid(version, posted[h])
           old == IF uid \in DOMAIN users THEN users[uid] ELSE <<>>
       IN  users' = (uid :> Merge(UserData(posted[h], now), old)) @@ users
    /\ wrote' = [wrote EXCEPT ![h] = @ \cup {"users"}]
    /\ pc' = [pc EXCEPT ![h] = "getUser"]
    /\ lastApplied' = AfterWrite(h)
    /\ UNCHANGED <<version, passphrase, subs, claims, now, posted, validateResp,
                   snap, outcome, response>>
    /\ UNCHANGED signVars
    /\ UNCHANGED subVars
    /\ UNCHANGED encVars
    /\ UNCHANGED gate
    /\ UNCHANGED sentBody

UserDocThrows(h) ==
    /\ pc[h] = "userdoc"
    /\ Respond(h, "error: users", ItnCatchResponse)
    /\ UNCHANGED <<version, passphrase, subs, users, claims, now, posted,
                   validateResp, snap, wrote, lastApplied>>
    /\ UNCHANGED signVars
    /\ UNCHANGED subVars
    /\ UNCHANGED encVars
    /\ UNCHANGED gate
    /\ UNCHANGED sentBody

\* const user = await auth.getUser(uid)
GetUser(h) ==
    /\ pc[h] \in {"getUser", "getUserC"}
    /\ ResolveUid(version, posted[h]) \in AuthUsers
    /\ snap' = [snap EXCEPT ![h] = claims[ResolveUid(version, posted[h])]]
    /\ pc' = [pc EXCEPT ![h] = IF pc[h] = "getUser" THEN "setClaims" ELSE "setClaimsC"]
    /\ UNCHANGED <<version, passphrase, subs, users, claims, now, posted,
                   validateResp, outcome, response, wrote, lastApplied>>
    /\ UNCHANGED signVars
    /\ UNCHANGED subVars
    /\ UNCHANGED encVars
    /\ UNCHANGED gate
    /\ UNCHANGED sentBody

\* faulty variant: the claim is flipped instead of set
ToggleSubscriber(cc) ==
    IF "subscriber" \in cc THEN cc \ {"subscriber"} ELSE cc \cup {"subscriber"}

\* {...(user.customClaims || {}), subscriber: true}
WithSubscriber(cc) == cc \cup {"subscriber"}

\* await auth.setCustomUserClaims(uid, {...(user.customClaims || {}), subscriber: true})
SetClaims(h) ==
    /\ pc[h] = "setClaims"
    /\ LET uid  == ResolveUid(version, posted[h])
           clms == [claims EXCEPT ![uid] = WithSubscriber(snap[h])]
       IN  /\ claims' = clms
           /\ wrote' = [wrote EXCEPT ![h] = @ \cup {"claims"}]
           /\ IF Cancels(version, posted[h])
              THEN /\ pc' = [pc EXCEPT ![h] = "getUserC"]
                   /\ lastApplied' = AfterWrite(h)
                   /\ UNCHANGED <<outcome, response>>
              ELSE Applied(h, subs, users, clms)
    /\ UNCHANGED <<version, passphrase, subs, users, now, posted, validateResp, snap>>
    /\ UNCHANGED signVars
    /\ UNCHANGED subVars
    /\ UNCHANGED encVars
    /\ UNCHANGED gate
    /\ UNCHANGED sentBody

\* version 2: delete cc.subscriber; await auth.setCustomUserClaims(uid, cc)
SetClaimsC(h) ==
    /\ pc[h] = "setClaimsC"
    /\ LET uid  == ResolveUid(version, posted[h])
           clms == [claims EXCEPT ![uid] = snap[h] \ {"subscriber"}]
       IN  /\ claims' = clms
           /\ wrote' = [wrote EXCEPT ![h] = @ \cup {"claims"}]
           /\ Applied(h, subs, users, clms)
    /\ UNCHANGED <<version, passphrase, subs, users, now, posted, validateResp, snap>>
    /\ UNCHANGED signVars
    /\ UNCHANGED subVars
    /\ UNCHANGED encVars
    /\ UNCHANGED gate
    /\ UNCHANGED sentBody

\* auth.getUser or auth.setCustomUserClaims throws.  Version 1 catches it
\* beside the call, warns and goes on to "subscriber activated"; in version 2
\* it reaches the catch block of the handler
AuthThrows(h) ==
    /\ pc[h] \in {"getUser", "setClaims", "getUserC", "setClaimsC"}
    /\ IF version = 1
       THEN Applied(h, subs, users, claims)
       ELSE /\ Respond(h, "error: auth", ItnCatchResponse)
            /\ UNCHANGED lastApplied
    /\ UNCHANGED <<version, passphrase, subs, users, claims, now, posted,
                   validateResp, snap, wrote>>
    /\ UNCHANGED signVars
    /\ UNCHANGED subVars
    /\ UNCHANGED encVars
    /\ UNCHANGED gate
    /\ UNCHANGED sentBody

\* faulty variant: the handler goes straight to the validation call
ReceiveUnchecked(h) ==
    /\ pc[h] \in {"idle", "done"}
    /\ now < MaxTime
    /\ \E f \in ItnFields :
         \E sig \in {expectedSig(version, f, passphrase), ForgedSig, Undef} :
            posted' = [posted EXCEPT ![h] = f @@ Opt("signature", sig)]
    /\ now' = now + 1
    /\ pc' = [pc EXCEPT ![h] = "validate"]
    /\ validateResp' = [validateResp EXCEPT ![h] = Undef]
    /\ snap' = [snap EXCEPT ![h] = {}]
    /\ outcome' = [outcome EXCEPT ![h] = "none"]
    /\ response' = [response EXCEPT ![h] = NoResp]
    /\ wrote' = [wrote EXCEPT ![h] = {}]
    /\ sentBody' = [sentBody EXCEPT ![h] = Undef]
    /\ UNCHANGED <<version, passphrase, subs, users, claims, lastApplied>>
    /\ UNCHANGED signVars
    /\ UNCHANGED subVars
    /\ UNCHANGED encVars
    /\ UNCHANGED gate

\* app.post('/api/payfast/itn', ...): a notification arrives
Receive(h) == ReceiveOf(h, ItnFields)

ItnNext ==
    \E h \in Serial :
        \/ Receive(h)
        \/ CheckSignature(h)
        \/ Validate(h)
        \/ ValidateThrows(h)
        \/ Persist(h)
        \/ PersistThrows(h)
        \/ UserDoc(h)
        \/ UserDocThrows(h)
        \/ GetUser(h)
        \/ SetClaims(h)
        \/ SetClaimsC(h)
        \/ AuthThrows(h)

Next == ItnNext

Spec == Init /\ [][Next]_vars

(***************************************************************************)
(* Concurrent delivery: two ITN handlers, their awaits interleaved         *)
(***************************************************************************)
ConcRefs == { <<"p1">>, <<"p2">> }

\* The notifications delivered at once: paid in full, for the records of
\* one user, reporting the subscription active or cancelled
ConcFields ==
    { ("m_payment_id" :> m) @@ ("custom_str1" :> <<"u1">>)
        @@ ("subscription_status" :> st) @@ ("amount_gross" :> <<"99.00">>) :
        m \in ConcRefs, st \in { <<"ACTIVE">>, <<"CANCELLED">> } }

ReceiveConc(h) == ReceiveOf(h, ConcFields)

ConcNext ==
    \E h \in Requests :
        \/ ReceiveConc(h)
        \/ CheckSignature(h)
        \/ Validate(h)
        \/ ValidateThrows(h)
        \/ Persist(h)
        \/ PersistThrows(h)
        \/ UserDoc(h)
        \/ UserDocThrows(h)
        \/ GetUser(h)
        \/ SetClaims(h)
        \/ SetClaimsC(h)
        \/ AuthThrows(h)

SpecConc == Init /\ [][ConcNext]_vars

(***************************************************************************)
(* Acknowledgment: the handler under a validation endpoint that may never  *)
(* answer.  validateWithPayFast passes fetch no timeout and no signal.     *)
(***************************************************************************)
\* 2) await validateWithPayFast(qsNoPass): the promise never settles
ValidateHangs(h) ==
    /\ pc[h] = "validate"
    /\ sentBody' = [sentBody EXCEPT ![h] = qsNoPass(version, posted[h])]
    /\ pc' = [pc EXCEPT ![h] = "hung"]
    /\ UNCHANGED <<version, passphrase, subs, users, claims, now, posted,
                   validateResp, snap, outcome, response, wrote, lastApplied>>
    /\ UNCHANGED signVars
    /\ UNCHANGED subVars
    /\ UNCHANGED encVars
    /\ UNCHANGED gate

NextLive ==
    \/ ItnNext
    \/ \E h \in Serial : ValidateHangs(h)

\* From its first await on, the event loop runs every continuation of the
\* handler that is ready, and the services called settle their calls one
\* way or another (a call that hangs apart)
Fairness ==
    \A h \in Serial :
        /\ WF_vars(Validate(h) \/ ValidateThrows(h) \/ ValidateHangs(h))
        /\ WF_vars(Persist(h) \/ PersistThrows(h))
        /\ WF_vars(UserDoc(h) \/ UserDocThrows(h))
        /\ WF_vars(GetUser(h) \/ SetClaims(h) \/ SetClaimsC(h) \/ AuthThrows(h))

SpecLive == Init /\ [][NextLive]_vars /\ Fairness

(***************************************************************************)
(* Signing round trip: the Initiator signs a field map, the webhook        *)
(* recomputes the signature over what it is posted                         *)
(***************************************************************************)
\* Values a field may hold; undefined: the field is absent
SignValues ==
    [ merchant_id    |-> { <<"X">>, <<" ", "X">>, <<"Y">> },
      amount         |-> { Undef, <<"99.00">>, <<"9.00">> },
      item_name      |-> { Undef, <<>>, <<"Monthly", " ", "Plan">>, <<"a", "!">> },
      payment_status |-> { Undef, <<"COMPLETE">>, <<"FAILED">> } ]

SignFieldMaps ==
    { Opt("merchant_id", a) @@ Opt("amount", b) @@ Opt("item_name", c)
        @@ Opt("payment_status", d) :
        a \in SignValues.merchant_id, b \in SignValues.amount,
        c \in SignValues.item_name, d \in SignValues.payment_status }

SignSecrets == { <<>>, <<" ">>, <<"s3cret">> }

\* version 1: generateSignature(fields, process.env.PAYFAST_PASSPHRASE || '');
\* version 2: md5Hex(buildPfParamString(fields, process.env.PAYFAST_PASSPHRASE))
InitiatorSign(v, fields, pass) ==
    IF v = 1 THEN generateSignature(fields, pass)
    ELSE md5Hex(buildPfParamString2(fields, pass))

ItnIdle ==
    /\ subs = <<>>
    /\ users = <<>>
    /\ claims = [u \in AuthUsers |-> {}]
    /\ now = 0
    /\ pc = [h \in Requests |-> "idle"]
    /\ posted = [h \in Requests |-> <<>>]
    /\ validateResp = [h \in Requests |-> Undef]
    /\ snap = [h \in Requests |-> {}]
    /\ outcome = [h \in Requests |-> "none"]
    /\ response = [h \in Requests |-> NoResp]
    /\ wrote = [h \in Requests |-> {}]
    /\ lastApplied = NoneApplied
    /\ sentBody = [h \in Requests |-> Undef]

InitSign ==
    /\ version \in {1, 2}
    /\ passphrase \in SignSecrets
    /\ sfields \in SignFieldMaps
    /\ ssig = <<>>
    /\ sstage = "input"
    /\ stampered = "none"
    /\ sverified = FALSE
    /\ ItnIdle
    /\ env = FullEnv
    /\ SubIdle
    /\ GateIdle
    /\ EncIdle

\* The Initiator signs the fields
Sign ==
    /\ sstage = "input"
    /\ ssig' = InitiatorSign(version, sfields, passphrase)
    /\ sstage' = "signed"
    /\ UNCHANGED <<version, passphrase, sfields, stampered, sverified>>
    /\ UNCHANGED itnVars
    /\ UNCHANGED subVars
    /\ UNCHANGED encVars
    /\ UNCHANGED gate

\* On the way, the value of one field is changed
TamperValue ==
    /\ sstage = "signed"
    /\ stampered = "none"
    /\ \E k \in DOMAIN sfields :
         \E val \in SignValues[k] \ {Undef, sfields[k]} :
            sfields' = [sfields EXCEPT ![k] = val]
    /\ stampered' = "changed"
    /\ UNCHANGED <<version, passphrase, ssig, sstage, sverified>>
    /\ UNCHANGED itnVars
    /\ UNCHANGED subVars
    /\ UNCHANGED encVars
    /\ UNCHANGED gate

\* On the way, a field with a value that is not empty is added
TamperAdd ==
    /\ sstage = "signed"
    /\ stampered = "none"
    /\ \E k \in DOMAIN SignValues \ DOMAIN sfields :
         \E val \in SignValues[k] \ {Undef, <<>>} :
            sfields' = (k :> val) @@ sfields
    /\ stampered' = "added"
    /\ UNCHANGED <<version, passphrase, ssig, sstage, sverified>>
    /\ UNCHANGED itnVars
    /\ UNCHANGED subVars
    /\ UNCHANGED encVars
    /\ UNCHANGED gate

\* The webhook recomputes the signature over the posted fields and compares
Verify ==
    /\ sstage = "signed"
    /\ sverified' = ~SigMismatch(version, sfields @@ ("signature" :> ssig), passphrase)
    /\ sstage' = "verified"
    /\ UNCHANGED <<version, passphrase, sfields, ssig, stampered>>
    /\ UNCHANGED itnVars
    /\ UNCHANGED subVars
    /\ UNCHANGED encVars
    /\ UNCHANGED gate

NextSign == Sign \/ TamperValue \/ TamperAdd \/ Verify

SpecSign == InitSign /\ [][NextSign]_vars

(***************************************************************************)
(* Initiator: POST /api/payfast/subscribe, one action per step             *)
(***************************************************************************)
\* A caller posts /api/payfast/subscribe; the clock may have moved on
StartSubscribe(s) ==
    /\ sub[s].pc \in {"idle", "done"}
    /\ \E u \in Callers :
         sub' = [sub EXCEPT ![s] = [NoSub EXCEPT !.pc = "auth", !.user = u]]
    /\ \E t \in {now, now + 1} : t <= MaxTime /\ now' = t
    /\ UNCHANGED <<version, passphrase, env, subs, users, claims, pc, posted,
                   validateResp, snap, outcome, response, wrote, lastApplied>>
    /\ UNCHANGED signVars
    /\ UNCHANGED encVars
    /\ UNCHANGED gate
    /\ UNCHANGED sentBody

\* requireAuth
RequireAuth(s) ==
    /\ sub[s].pc = "auth"
    /\ IF Falsy(sub[s].user)
       THEN sub' = [sub EXCEPT ![s].pc = "done", ![s].response = SignInRequired]
       ELSE sub' = [sub EXCEPT ![s].pc = "handler"]
    /\ UNCHANGED <<version, passphrase, env>>
    /\ UNCHANGED itnVars
    /\ UNCHANGED signVars
    /\ UNCHANGED encVars
    /\ UNCHANGED gate

\* version 1: the whole handler (it awaits nothing): build the fields, sign,
\* send the form
Subscribe1(s) ==
    /\ version = 1
    /\ sub[s].pc = "handler"
    /\ LET fields    == fields1(env, sub[s].user, now)
           signature == InitiatorSign(1, fields, passphrase)
       IN  sub' = [sub EXCEPT ![s].pc = "done",
                              ![s].mPaymentId = fields.m_payment_id,
                              ![s].fields = fields,
                              ![s].signature = signature,
                              ![s].response = Redirect(1, env, fieldKeys1, fields, signature)]
    /\ UNCHANGED <<version, passphrase, env>>
    /\ UNCHANGED itnVars
    /\ UNCHANGED signVars
    /\ UNCHANGED encVars
    /\ UNCHANGED gate

\* version 2, up to the await: subRef = db.collection('subscriptions').doc()
\* (an id no document and no other request has), build the fields, sign
Subscribe2Sign(s) ==
    /\ version = 2
    /\ sub[s].pc = "handler"
    /\ \E id \in AutoIds \ (DOMAIN subs \cup {sub[o].mPaymentId : o \in SubRequests}) :
         LET fields == fields2(env, sub[s].user, id)
         IN  sub' = [sub EXCEPT ![s].pc = "save",
                                ![s].mPaymentId = id,
                                ![s].fields = fields,
                                ![s].signature = InitiatorSign(2, fields, passphrase)]
    /\ UNCHANGED <<version, passphrase, env>>
    /\ UNCHANGED itnVars
    /\ UNCHANGED signVars
    /\ UNCHANGED encVars
    /\ UNCHANGED gate

\* version 2: await subRef.set({...pending...}), then send the form
Subscribe2Save(s) ==
    /\ sub[s].pc = "save"
    /\ subs' = (sub[s].mPaymentId :> PendingDoc(sub[s].user, now)) @@ subs
    /\ sub' = [sub EXCEPT ![s].pc = "done",
                          ![s].response = Redirect(2, env, fieldKeys2, sub[s].fields,
                                                   sub[s].signature)]
    /\ UNCHANGED <<version, passphrase, env, users, claims, now, pc, posted,
                   validateResp, snap, outcome, response, wrote, lastApplied>>
    /\ UNCHANGED signVars
    /\ UNCHANGED encVars
    /\ UNCHANGED gate
    /\ UNCHANGED sentBody

\* version 2: subRef.set throws, the catch block answers
Subscribe2SaveThrows(s) ==
    /\ sub[s].pc = "save"
    /\ sub' = [sub EXCEPT ![s].pc = "done", ![s].response = CouldNotStart]
    /\ UNCHANGED <<version, passphrase, env>>
    /\ UNCHANGED itnVars
    /\ UNCHANGED signVars
    /\ UNCHANGED encVars
    /\ UNCHANGED gate

SubNext ==
    \E s \in SubRequests :
        \/ StartSubscribe(s)
        \/ RequireAuth(s)
        \/ Subscribe1(s)
        \/ Subscribe2Sign(s)
        \/ Subscribe2Save(s)
        \/ Subscribe2SaveThrows(s)

InitSub ==
    /\ version \in {1, 2}
    /\ passphrase \in SignSecrets
    /\ env \in Envs
    /\ SubIdle
    /\ GateIdle
    /\ ItnIdle
    /\ SignIdle
    /\ EncIdle

SpecSub == InitSub /\ [][SubNext]_vars

(***************************************************************************)
(* Canonical encoding: a signer of the repository builds the string of a   *)
(* field map                                                               *)
(***************************************************************************)
InitEnc ==
    /\ version \in {1, 2}
    /\ passphrase \in SignSecrets
    /\ encoder \in Encoders
    /\ entries \in EncEntries
    /\ canon = Undef
    /\ env = FullEnv
    /\ SubIdle
    /\ GateIdle
    /\ ItnIdle
    /\ SignIdle

\* buildPfParamString(fields, passphrase)
Encode ==
    /\ canon = Undef
    /\ canon' = Canonical(encoder, entries, passphrase)
    /\ UNCHANGED <<version, passphrase, encoder, entries>>
    /\ UNCHANGED itnVars
    /\ UNCHANGED signVars
    /\ UNCHANGED subVars
    /\ UNCHANGED gate

NextEnc == Encode

SpecEnc == InitEnc /\ [][NextEnc]_vars

(***************************************************************************)
(* Properties                                                              *)
(***************************************************************************)
Applying == {"persist", "userdoc", "getUser", "setClaims", "getUserC", "setClaimsC"}

\* C1: the ITN handler answers every notification with HTTP 200 and the body
\* "OK", whatever happened inside: signature mismatch, validation not VALID,
\* validator network error, an exception while applying, or success.
C1_AlwaysOK ==
    \A h \in Requests :
        /\ pc[h] = "done" => response[h] = OK200
        /\ response[h] # NoResp => response[h] = OK200 /\ pc[h] = "done"

\* C1 witness: a handler has answered after an exception during applying
C1_Witness ==
    \E h \in Requests :
        /\ pc[h] = "done"
        /\ outcome[h] \in {"error: users", "error: auth"}
        /\ "subscriptions" \in wrote[h]
        /\ response[h] = OK200

\* C2: a notification whose recomputed signature differs from the one it
\* claims is rejected with no state change: its handler writes no
\* subscription document, no users document and no custom claim.
C2_MismatchWritesNothing ==
    \A h \in Requests :
        (pc[h] # "idle" /\ SigMismatch(version, posted[h], passphrase))
            => /\ wrote[h] = {}
               /\ pc[h] \in {"sig", "done"}
               /\ pc[h] = "done" => outcome[h] = "invalid signature"

\* C2 witness: a forged notification was rejected while a record exists
C2_Witness ==
    \E h \in Requests :
        /\ pc[h] = "done"
        /\ SigMismatch(version, posted[h], passphrase)
        /\ DocId(version, posted[h]) \in DOMAIN subs
        /\ subs[DocId(version, posted[h])]["status"] # ItnStatus(posted[h])

\* C3: a notification with a valid signature whose validation answer is
\* anything but VALID changes no record status and no entitlement flag: its
\* handler writes nothing and ends.
C3_NotValidWritesNothing ==
    \A h \in Requests :
        (/\ ~SigMismatch(version, posted[h], passphrase)
         /\ validateResp[h] # Undef
         /\ validateResp[h] # <<"VALID">>)
            => wrote[h] = {} /\ pc[h] = "done"

\* C3 witness: INVALID (and, apart, an empty answer) was given for a
\* correctly signed notification that would have changed an existing record
C3_Witness ==
    \E h \in Requests :
        /\ pc[h] = "done"
        /\ ~SigMismatch(version, posted[h], passphrase)
        /\ validateResp[h] \in {<<"INVALID">>, <<>>}
        /\ DocId(version, posted[h]) \in DOMAIN subs
        /\ subs[DocId(version, posted[h])]["status"] # ItnStatus(posted[h])

\* C4: when the validation call fails (fetch throws, so the handler has no
\* answer), the notification is not trusted: the handler writes nothing,
\* never starts applying, and still acknowledges with 200 OK.
C4_ValidatorErrorFailsClosed ==
    \A h \in Requests :
        /\ outcome[h] = "error: validate"
              => wrote[h] = {} /\ pc[h] = "done" /\ response[h] = OK200
        /\ validateResp[h] = Undef => wrote[h] = {} /\ pc[h] \notin Applying

\* C4 witness: the validation call threw for a correctly signed notification
C4_Witness ==
    \E h \in Requests :
        /\ outcome[h] = "error: validate"
        /\ ~SigMismatch(version, posted[h], passphrase)
        /\ pc[h] = "done"
        /\ response[h] = OK200

\* C5: for every field map and secret, the signature the webhook recomputes
\* over the field map equals the one the Initiator's signer made over the
\* same map with the same secret: verifying what was signed succeeds.
C5_SignVerifyAgree ==
    (sstage = "verified" /\ stampered = "none") => sverified

\* C6: once a field map is signed, changing the value of one field, or adding
\* a field with a value that is not empty (in the fixed order list or not),
\* makes the verification fail.  Stated for version 2, whose signer and
\* verifier are both buildPfParamString of server.js.
C6_TamperDetected ==
    (version = 2 /\ sstage = "verified" /\ stampered # "none") => ~sverified

\* The notification is a replay: it was the last one applied in full, and
\* the record's lastItn is its payload
IsReplay(h) ==
    /\ lastApplied.n = posted[h]
    /\ DocId(version, posted[h]) \in DOMAIN subs
    /\ subs[DocId(version, posted[h])]["lastItn"] = Payload(version, posted[h])

\* C7: a notification whose payload is the record's lastItn already is a
\* duplicate: the handler acknowledges it and writes nothing for it (no
\* subscription document, no users document, no custom claims).
C7_DuplicateWritesNothing ==
    [][\A h \in Requests :
          (pc[h] = "persist" /\ IsReplay(h)) => wrote'[h] = wrote[h]]_vars

\* C8: applying the same accepted notification twice in a row changes
\* nothing the second time: the record's status and uid and the user's flag
\* are what the first application left.
C8_ReapplyIdempotent ==
    [][\A h \in Requests :
          (/\ lastApplied.n = posted[h]
           /\ pc[h] \in Applying
           /\ pc'[h] = "done"
           /\ outcome'[h] = "applied")
              => AuthState(version, posted[h], subs', users', claims') = lastApplied.auth]_vars

\* C8 witness: a notification that sets the flag was applied twice in a row
C8_Witness ==
    \E h \in Requests :
        /\ pc[h] = "done"
        /\ outcome[h] = "applied"
        /\ lastApplied.n = posted[h]
        /\ lastApplied.runs = 2
        /\ lastApplied.auth.flag

\* The notification reports an active subscription or a complete payment
ReportsActive(body) ==
    \/ toUpperCase(OrElse(Get(body, "subscription_status"), <<>>)) = <<"ACTIVE">>
    \/ toUpperCase(OrElse(Get(body, "payment_status"), <<>>)) = <<"COMPLETE">>

ShortPaid(body) == ItnAmount(body) = NaN \/ ItnAmount(body) < MinPrice

\* C9: once an accepted notification is applied, the record's status is
\* "active" only if the notification reports ACTIVE or COMPLETE and its
\* amount is at least the price of the plan: a short-paid notification that
\* reports ACTIVE never leaves the record in status "active".
C9_ActiveOnlyIfPaid ==
    \A h \in Requests :
        (pc[h] = "done" /\ outcome[h] = "applied")
            => ( subs[DocId(version, posted[h])]["status"] = <<"active">>
                 => (ReportsActive(posted[h]) /\ ~ShortPaid(posted[h])) )

\* users/{uid}.subscriber or the custom claim subscriber
AnyFlag(uid) ==
    FlagOf(1, users, claims, uid) \/ FlagOf(2, users, claims, uid)

\* C10: the handler of a notification that reports ACTIVE or COMPLETE with an
\* amount below the price of the plan never sets a user's flag
\* (users/{uid}.subscriber or the custom claim) to true.
C10_ShortPaidNeverEntitles ==
    [][\A h \in Requests :
          (pc[h] \in Applying /\ ReportsActive(posted[h]) /\ ShortPaid(posted[h]))
             => \A u \in AuthUsers : AnyFlag(u)' => AnyFlag(u)]_vars

\* C11: once the handler of an accepted notification that reports only
\* CANCELLED or FAILED has completed, the flag of the notification's user
\* (what the premium gate of the deployed version reads) is false: a
\* transition to cancelled or failed clears a flag that was true.
C11_CancelOrFailClearsFlag ==
    \A h \in Requests :
        (/\ pc[h] = "done"
         /\ outcome[h] = "applied"
         /\ ~ReportsActive(posted[h])
         /\ ItnStatus(posted[h]) \in {<<"cancelled">>, <<"failed">>})
            => ~FlagOf(version, users, claims, ResolveUid(version, posted[h]))

\* C12: a subscribe request answered with the redirect form has created the
\* record subscriptions/{m_payment_id of the form}, in status pending and
\* owned by the caller.
C12_RedirectHasPendingRecord ==
    \A s \in SubRequests :
        sub[s].response.status = 200
            => LET id == sub[s].response.inputs["m_payment_id"]
               IN  /\ id \in DOMAIN subs
                   /\ subs[id]["status"] = <<"pending">>
                   /\ subs[id]["uid"] = sub[s].user

\* C13: the pending record is created before the request is signed: in
\* version 2, whenever a subscribe request holds a signature, the record
\* subscriptions/{mPaymentId} exists (so a failed save leaves no signature).
C13_RecordBeforeSignature ==
    \A s \in SubRequests :
        (version = 2 /\ sub[s].signature # Undef)
            => sub[s].mPaymentId \in DOMAIN subs

\* The configuration the deployed Initiator cannot do without
RequiredEnv(v) ==
    IF v = 1 THEN {"PAYFAST_MERCHANT_ID", "PAYFAST_MERCHANT_KEY"}
    ELSE {"PAYFAST_MERCHANT_ID", "PAYFAST_MERCHANT_KEY", "PAYFAST_RETURN_URL",
          "PAYFAST_CANCEL_URL", "PAYFAST_NOTIFY_URL", "SUBSCRIPTION_AMOUNT",
          "SUBSCRIPTION_ITEM"}

\* C14: with a required configuration variable absent, a signed-in caller's
\* subscribe request ends in an error, with no record created, no signature
\* computed and no redirect form sent.
C14_MissingConfigRefused ==
    \A s \in SubRequests :
        (/\ sub[s].pc \in {"save", "done"}
         /\ ~Falsy(sub[s].user)
         /\ \E k \in RequiredEnv(version) : Falsy(env[k]))
            => /\ sub[s].response.status # 200
               /\ sub[s].signature = Undef
               /\ sub[s].mPaymentId \notin DOMAIN subs

\* str.split('&'): the pieces between the "&" tokens
SplitAmp(str) ==
    LET B      == {0, Len(str) + 1} \cup {i \in 1..Len(str) : str[i] = "&"}
        nth(n) == CHOOSE a \in B : Cardinality({x \in B : x < a}) = n - 1
    IN  [n \in 1..(Cardinality(B) - 1) |-> SubSeq(str, nth(n) + 1, nth(n + 1) - 1)]

\* The pairs k=v of a canonical string
PairsOf(str) == SelectSeq(SplitAmp(str), LAMBDA seg : seg # <<>>)

\* The keys of the pairs of a canonical string, in the order they stand in
PairKeys(str) == [i \in 1..Len(PairsOf(str)) |-> PairsOf(str)[i][1]]

\* The keys of the field pairs: the secret's pair apart
FieldKeys(str) == SelectSeq(PairKeys(str), LAMBDA k : k # "passphrase")

SeqToSet(q) == {q[i] : i \in 1..Len(q)}

\* The keys of the entries whose value is not undefined, null or blank
NonBlankKeys(es) ==
    {es[i][1] : i \in {j \in 1..Len(es) : /\ es[j][2] \notin {Undef, Null}
                                          /\ Trim(es[j][2]) # <<>>}}

Listed(k) == k \in SeqToSet(PF_FIELD_ORDER)

\* C15: for a field map whose keys are all in the fixed order list, the
\* canonical string holds a pair for exactly the fields whose value is not
\* null and not blank after trimming, and the pairs stand in the fixed
\* order whatever the insertion order of the map.
C15_PairsExactAndOrdered ==
    (canon # Undef /\ \A i \in 1..Len(entries) : Listed(entries[i][1]))
        => /\ SeqToSet(FieldKeys(canon)) = NonBlankKeys(entries)
           /\ FieldKeys(canon)
                = SelectSeq(PF_FIELD_ORDER, LAMBDA k : k \in NonBlankKeys(entries))

\* C16: a field outside the fixed order list whose value is not blank has
\* its pair in the canonical string, after the pairs of all listed fields.
C16_UnlistedIncludedAfterListed ==
    canon # Undef
        => \A k \in NonBlankKeys(entries) :
              ~Listed(k)
                 => \E i \in 1..Len(FieldKeys(canon)) :
                       /\ FieldKeys(canon)[i] = k
                       /\ \A j \in 1..Len(FieldKeys(canon)) :
                             Listed(FieldKeys(canon)[j]) => j < i

\* C17: the secret's pair is in the canonical string, as the last pair, if
\* and only if the secret is not blank after trimming; with a blank secret
\* the string is the one built with no secret.
C17_SecretLastIffNonBlank ==
    canon # Undef
        => /\ ("passphrase" \in SeqToSet(PairKeys(canon))) <=> (Trim(passphrase) # <<>>)
           /\ Trim(passphrase) # <<>>
                 => PairKeys(canon)[Len(PairKeys(canon))] = "passphrase"
           /\ Trim(passphrase) = <<>>
                 => canon = Canonical(encoder, entries, <<>>)

\* The statuses a subscription record may have
StatusValues ==
    { <<"pending">>, <<"active">>, <<"cancelled">>, <<"failed">>, <<"unknown">> }

\* C18: in every reachable state the status of every document of
\* subscriptions is one of pending, active, cancelled, failed, unknown.
C18_StatusInEnum ==
    \A id \in DOMAIN subs : subs[id]["status"] \in StatusValues

\* C19: the status of a record only advances: no step takes it back to
\* pending, none takes it from cancelled or failed to active, and from
\* active it may only go to cancelled.
C19_StatusMonotone ==
    [][\A id \in DOMAIN subs :
          LET a == subs[id]["status"]
              b == subs'[id]["status"]
          IN  a # b =>
                /\ b # <<"pending">>
                /\ a \in {<<"cancelled">>, <<"failed">>} => b # <<"active">>
                /\ a = <<"active">> => b = <<"cancelled">>]_vars

\* C20: once a record has an owner, no step changes its uid (nor its plan,
\* where it has one), whatever user reference the notification applied
\* carries.
C20_OwnerNeverChanges ==
    [][\A id \in DOMAIN subs :
          /\ subs[id]["uid"] # Null => subs'[id]["uid"] = subs[id]["uid"]
          /\ "plan" \in DOMAIN subs[id]
                => "plan" \in DOMAIN subs'[id] /\ subs'[id]["plan"] = subs[id]["plan"]]_vars

\* C21: the webhook never creates a record: a step of an ITN handler leaves
\* the set of documents of subscriptions as it was (records are created by
\* the Initiator alone, in status pending).
C21_WebhookNeverCreates ==
    [][\A h \in Requests :
          (pc[h] = "persist" /\ pc'[h] # "persist") => DOMAIN subs' = DOMAIN subs]_vars

\* Each of the two handlers has taken one notification and applied it in full
BothApplied ==
    /\ now = 2
    /\ \A h \in Requests : pc[h] = "done" /\ outcome[h] = "applied"

\* C22: version 2, two notifications for the same record handled at once:
\* after both handlers have completed, the record's status and lastItn come
\* from one of the two notifications, and the claim of the owner says what
\* that status says.
C22_ConcurrentSameRecordAgrees ==
    (/\ version = 2
     /\ BothApplied
     /\ DocId(version, posted["r1"]) = DocId(version, posted["r2"]))
        => LET rec == subs[DocId(version, posted["r1"])]
           IN  /\ \E h \in Requests :
                     /\ rec["status"] = ItnStatus(posted[h])
                     /\ rec["lastItn"] = Payload(version, posted[h])
               /\ FlagOf(version, users, claims, <<"u1">>)
                     <=> (rec["status"] = <<"active">>)

\* The flag of the notification's user once its handler has run alone from
\* a flag f.  Version 1 sets users/{uid}.subscriber when the business rule
\* holds and never clears it; version 2 sets the claim on ACTIVE or COMPLETE
\* and then deletes it on CANCELLED.
FlagAfter(v, f, body) ==
    IF v = 1 THEN f \/ Activates(1, body)
    ELSE IF Cancels(2, body) THEN FALSE
    ELSE IF Activates(2, body) THEN TRUE
    ELSE f

\* C28: two notifications for different records of one user: once both
\* handlers have completed, the user's flag is what handling them one after
\* the other leaves, in the one order and in the other (so it does not
\* depend on the order).
C28_FlagOrderIndependent ==
    (/\ BothApplied
     /\ DocId(version, posted["r1"]) # DocId(version, posted["r2"]))
        => LET f == FlagOf(version, users, claims, <<"u1">>)
           IN  /\ f = FlagAfter(version, FlagAfter(version, FALSE, posted["r1"]), posted["r2"])
               /\ f = FlagAfter(version, FlagAfter(version, FALSE, posted["r2"]), posted["r1"])

\* C23: every notification the handler has received is acknowledged in the
\* end: a handler that has called the validation endpoint reaches its
\* response, whatever the endpoint does.
C23_EventuallyAcknowledged ==
    \A h \in Serial : (pc[h] = "validate") ~> (pc[h] = "done")

\* What the browser posts for an input: the value of the attribute with the
\* character references of escapeHtmlAttr decoded
unescapeHtmlTok(c) ==
    CASE c = "&amp;"  -> "&"
      [] c = "&quot;" -> "\""
      [] c = "&#39;"  -> "'"
      [] c = "&lt;"   -> "<"
      [] c = "&gt;"   -> ">"
      [] OTHER        -> c

\* The fields the browser posts to PayFast, signature apart
PostedForm(resp) ==
    [k \in DOMAIN resp.inputs \ {"signature"} |->
        [i \in 1..Len(resp.inputs[k]) |-> unescapeHtmlTok(resp.inputs[k][i])]]

\* The string the Initiator of version v has signed
SignedString(v, fields, pass) ==
    IF v = 1 THEN buildPfParamString(fields, pass) ELSE buildPfParamString2(fields, pass)

\* The pair k=value as the signer of version v writes it for that exact value
PairFor(v, k, val) ==
    <<k, "=">> \o (IF v = 1 THEN encodeFormComponent(val) ELSE encodeRFC3986(val))

\* C24: the redirect form presents exactly the signed fields: every input
\* posted with a value that is not empty has its pair, with that exact
\* value, in the string that was signed, and every signed pair (the
\* secret's apart) is the pair of an input of the form.
C24_FormIsSignedSet ==
    \A s \in SubRequests :
        sub[s].response.status = 200
            => LET form   == PostedForm(sub[s].response)
                   signed == { p \in SeqToSet(PairsOf(SignedString(version, sub[s].fields,
                                                                  passphrase))) :
                                 p[1] # "passphrase" }
               IN  /\ \A k \in DOMAIN form :
                         form[k] # <<>> => PairFor(version, k, form[k]) \in signed
                   /\ \A p \in signed :
                         \E k \in DOMAIN form : p = PairFor(version, k, form[k])

\* C25: the steps of a notification are strictly ordered: received, then
\* signature-checked, then remotely validated, then applied.  The validation
\* call is made only from a handler whose signature check passed, applying
\* starts only from an answer VALID, and every write is made by a handler
\* whose signature check passed and whose answer was VALID.
C25_StepsOrdered ==
    [][\A h \in Requests :
          LET sigOk == ~SigMismatch(version, posted[h], passphrase) IN
          /\ (pc'[h] = "sig" /\ pc[h] # "sig") => pc[h] \in {"idle", "done"}
          /\ (pc'[h] = "validate" /\ pc[h] # "validate") => (pc[h] = "sig" /\ sigOk)
          /\ (validateResp'[h] # validateResp[h] /\ validateResp'[h] # Undef)
                => (pc[h] = "validate" /\ sigOk)
          /\ (pc'[h] \in Applying /\ pc[h] \notin Applying)
                => (pc[h] = "validate" /\ sigOk /\ validateResp'[h] = <<"VALID">>)
          /\ (wrote'[h] # wrote[h] /\ wrote'[h] # {})
                => (pc[h] \in Applying /\ sigOk /\ validateResp[h] = <<"VALID">>)]_vars

\* C25 witness: a handler went through every step and wrote the record and
\* the claim
C25_Witness ==
    \E h \in Requests :
        /\ pc[h] = "done"
        /\ outcome[h] = "applied"
        /\ ~SigMismatch(version, posted[h], passphrase)
        /\ validateResp[h] = <<"VALID">>
        /\ {"subscriptions", "claims"} \subseteq wrote[h]

(***************************************************************************)
(* A subscription from the redirect to its notifications: the Initiator    *)
(* sends the form, PayFast notifies about the form's payment reference     *)
(***************************************************************************)
\* The notifications PayFast sends for the forms sent so far: the payment
\* reference of the form, with custom_str1 echoed or left out, for a payment
\* and for a cancellation
CycleFields ==
    UNION { { ("m_payment_id" :> PostedForm(sub[s].response)["m_payment_id"])
                @@ Opt("custom_str1", u)
                @@ Opt("payment_status", st[1])
                @@ Opt("subscription_status", st[2])
                @@ ("amount_gross" :> <<"99.00">>) :
              u \in {Undef, PostedForm(sub[s].response)["custom_str1"]},
              st \in { <<<<"COMPLETE">>, Undef>>, <<Undef, <<"CANCELLED">>>> } } :
            s \in {x \in SubRequests : sub[x].response.status = 200} }

ReceiveCycle(h) == ReceiveOf(h, CycleFields)

\* The subscription the cycle is about: the request is sent once
StartCycle(s) == sub[s].pc = "idle" /\ StartSubscribe(s)

NextCycle ==
    \/ \E s \in SubRequests :
        \/ StartCycle(s)
        \/ RequireAuth(s)
        \/ Subscribe1(s)
        \/ Subscribe2Sign(s)
        \/ Subscribe2Save(s)
        \/ Subscribe2SaveThrows(s)
    \/ \E h \in Serial :
        \/ ReceiveCycle(h)
        \/ CheckSignature(h)
        \/ Validate(h)
        \/ ValidateThrows(h)
        \/ Persist(h)
        \/ PersistThrows(h)
        \/ UserDoc(h)
        \/ UserDocThrows(h)
        \/ GetUser(h)
        \/ SetClaims(h)
        \/ SetClaimsC(h)
        \/ AuthThrows(h)

SpecCycle == Init /\ [][NextCycle]_vars

\* C26: the user of a notification is custom_str1 when it is there and is
\* taken from the payment reference otherwise: for a reference
\* sub_{userId}_{timestamp} the Initiator made, the record the handler
\* writes is owned by exactly that userId, "_" in it or not.
C26_UidFromReference ==
    \A h \in Serial : \A s \in SubRequests :
        (/\ sub[s].response.status = 200
         /\ Get(posted[h], "m_payment_id") = sub[s].mPaymentId
         /\ sub[s].mPaymentId[1] = "sub"
         /\ "subscriptions" \in wrote[h])
            => subs[DocId(version, posted[h])]["uid"] = sub[s].user

\* C27: applying a notification is all or nothing: when a later step fails
\* after the record was written, the handler does not leave the record
\* `active` while its owner's entitlement flag is false.
C27_NoActiveWithoutFlag ==
    \A h \in Requests :
        (/\ pc[h] = "done"
         /\ outcome[h] \in {"error: users", "error: auth"}
         /\ "subscriptions" \in wrote[h])
            => LET rec == subs[DocId(version, posted[h])]
               IN  ~(/\ rec["status"] = <<"active">>
                     /\ ~FlagOf(version, users, claims, ResolveUid(version, posted[h])))

\* needle stands somewhere in str
Occurs(needle, str) ==
    /\ needle # <<>>
    /\ \E i \in 1..Len(str) :
          /\ i + Len(needle) - 1 <= Len(str)
          /\ SubSeq(str, i, i + Len(needle) - 1) = needle

\* The secret stands in str, as it is or as an encoder writes it
HasSecret(str) ==
    \E n \in {passphrase, encodeCanonical(passphrase), encodeRFC3986(passphrase)} :
        Occurs(n, str)

\* The pair the signers append for the secret
SecretPair(v) ==
    <<"&", "passphrase", "=">>
        \o (IF v = 1 THEN encodeCanonical(Trim(passphrase)) ELSE encodeRFC3986(passphrase))

\* C29: the shared secret never leaves the server.  The body posted to the
\* validation endpoint is the canonical string of the notification without
\* the secret (the string that was hashed, less the secret's pair), and no
\* field of the redirect form contains the secret; the signature is an md5
\* digest and is not looked into.
C29_SecretStaysOnServer ==
    passphrase # <<>> =>
        /\ \A h \in Requests :
              sentBody[h] # Undef
                 => /\ ~HasSecret(sentBody[h])
                    /\ "passphrase" \notin SeqToSet(PairKeys(sentBody[h]))
                    /\ md5Hex(sentBody[h] \o SecretPair(version))
                          = expectedSig(version, posted[h], passphrase)
        /\ \A s \in SubRequests :
              sub[s].response.status = 200
                 => \A k \in DOMAIN PostedForm(sub[s].response) :
                       ~HasSecret(PostedForm(sub[s].response)[k])

\* C29 witness: with a secret set, a form was sent and the notification for
\* its payment reference was validated
C29_Witness ==
    /\ passphrase # <<>>
    /\ \E h \in Requests : \E s \in SubRequests :
          /\ sub[s].response.status = 200
          /\ sentBody[h] # Undef
          /\ validateResp[h] = <<"VALID">>
          /\ Get(posted[h], "m_payment_id") = sub[s].mPaymentId

(***************************************************************************)
(* The premium endpoints (/api/commentary, /api/devotion, /api/prayer)     *)
(* behind authOptional, requireAuth and the subscriber middleware, while   *)
(* notifications go on being handled                                       *)
(***************************************************************************)
\* The notifications handled meanwhile: one reference, activated or cancelled
GateFields == { f \in ConcFields : f["m_payment_id"] = <<"p1">> }

ReceiveGate(h) == ReceiveOf(h, GateFields)

\* The client signs in or refreshes its ID token: Firebase puts the custom
\* claims of that moment into the token
SignIn ==
    /\ gate.pc \in {"idle", "done"}
    /\ \E u \in AuthUsers :
         /\ gate.held # [uid |-> u, subscriber |-> "subscriber" \in claims[u]]
         /\ gate' = [gate EXCEPT !.held = [uid |-> u, subscriber |-> "subscriber" \in claims[u]]]
    /\ UNCHANGED <<version, passphrase>>
    /\ UNCHANGED itnVars
    /\ UNCHANGED signVars
    /\ UNCHANGED subVars
    /\ UNCHANGED encVars

\* The client posts to a premium endpoint, with the token it holds or without
PremiumRequest ==
    /\ gate.pc \in {"idle", "done"}
    /\ \E b \in {NoToken, gate.held} :
         gate' = [gate EXCEPT !.pc = "verify", !.bearer = b, !.user = NoToken,
                              !.result = "none"]
    /\ UNCHANGED <<version, passphrase>>
    /\ UNCHANGED itnVars
    /\ UNCHANGED signVars
    /\ UNCHANGED subVars
    /\ UNCHANGED encVars

\* res.status(..).json(..) of a middleware, or next() into the handler
GateEnds(user, r) == gate' = [gate EXCEPT !.pc = "done", !.user = user, !.result = r]

\* requireAuth
requireAuth(user) == IF Falsy(user.uid) THEN "401" ELSE "next"

\* version 2, requireSubscriber: the claim of the decoded token
requireSubscriber(user) == IF ~user.subscriber THEN "402" ELSE "next"

\* authOptional: req.user = await verifyIdToken(token), a throw is ignored;
\* then, with no await in between, requireAuth and, in version 2,
\* requireSubscriber and the handler; in version 1 requireSubscriberDb up
\* to its read of the users document
AuthOptional ==
    /\ gate.pc = "verify"
    /\ \E verified \in BOOLEAN :
         LET user == IF gate.bearer # NoToken /\ verified THEN gate.bearer ELSE NoToken
         IN  IF requireAuth(user) = "401" THEN GateEnds(user, "401")
             ELSE IF version = 1
                  THEN gate' = [gate EXCEPT !.pc = "subscriber", !.user = user]
                  ELSE IF requireSubscriber(user) = "402" THEN GateEnds(user, "402")
                       ELSE GateEnds(user, "handler")
    /\ UNCHANGED <<version, passphrase>>
    /\ UNCHANGED itnVars
    /\ UNCHANGED signVars
    /\ UNCHANGED subVars
    /\ UNCHANGED encVars

\* version 1, requireSubscriberDb: the users document is read
RequireSubscriberDb ==
    /\ gate.pc = "subscriber"
    /\ IF Falsy(gate.user.uid)
       THEN GateEnds(gate.user, "401")
       ELSE LET uid == gate.user.uid
            IN  IF /\ uid \in DOMAIN users
                   /\ "subscriber" \in DOMAIN users[uid]
                   /\ users[uid]["subscriber"] = TRUE
                THEN GateEnds(gate.user, "handler")
                ELSE GateEnds(gate.user, "402")
    /\ UNCHANGED <<version, passphrase>>
    /\ UNCHANGED itnVars
    /\ UNCHANGED signVars
    /\ UNCHANGED subVars
    /\ UNCHANGED encVars

\* version 1, requireSubscriberDb: the read throws, the catch warns
RequireSubscriberDbThrows ==
    /\ gate.pc = "subscriber"
    /\ GateEnds(gate.user, IF Falsy(gate.user.uid) THEN "401" ELSE "402")
    /\ UNCHANGED <<version, passphrase>>
    /\ UNCHANGED itnVars
    /\ UNCHANGED signVars
    /\ UNCHANGED subVars
    /\ UNCHANGED encVars

NextGate ==
    \/ SignIn
    \/ PremiumRequest
    \/ AuthOptional
    \/ RequireSubscriberDb
    \/ RequireSubscriberDbThrows
    \/ \E h \in Serial :
        \/ ReceiveGate(h)
        \/ CheckSignature(h)
        \/ Validate(h)
        \/ ValidateThrows(h)
        \/ Persist(h)
        \/ PersistThrows(h)
        \/ UserDoc(h)
        \/ UserDocThrows(h)
        \/ GetUser(h)
        \/ SetClaims(h)
        \/ SetClaimsC(h)
        \/ AuthThrows(h)

SpecGate == Init /\ [][NextGate]_vars

\* C30: a premium endpoint runs its handler only for an authenticated
\* request whose user's entitlement flag is true when the middleware checks
\* it; a request without a verified user ends in 401, and one whose flag is
\* false, missing or unreadable ends in 402.  (gate'.user is the req.user
\* of the request that ends in this step.)
C30_GateFailsClosed ==
    [][(gate.pc # "done" /\ gate'.pc = "done")
          => LET authed == ~Falsy(gate'.user.uid)
                 flag   == authed /\ FlagOf(version, users, claims, gate'.user.uid)
             IN  /\ gate'.result = "handler" => flag
                 /\ ~authed => gate'.result = "401"
                 /\ (authed /\ ~flag) => gate'.result = "402"]_vars

====
